---- MODULE Spec2Model ----
(***************************************************************************)
(* Model of the ms1-identity service.                                      *)
(*                                                                         *)
(* Spec: the composite cross-service deletion (app/composite/service.py)   *)
(* talking through the store client adapters (app/clients.py) to the       *)
(* identity store (app/users/users.py) and to the catalog store.           *)
(***************************************************************************)
EXTENDS Integers, Sequences, FiniteSets, TLC

(***************************************************************************)
(* Bounds of the model.                                                    *)
(***************************************************************************)
MaxItems == 2
MaxSellers == 2
MaxLegCalls == 2
MaxClock == 2

(***************************************************************************)
(* One call of delete_user_and_items is followed at a time, against a      *)
(* store holding one account; the handle "nobody" has no account.  The     *)
(* rest of the world acts through DirectDelete and CatalogReserve.         *)
(***************************************************************************)
Procs == {"p1"}
Handles == {"abc123", "nobody"}
InitialUsers == {[user_id |-> 1, uni |-> "abc123"]}
SellerIds == 1..MaxSellers
Statuses == {"available", "reserved", "sold"}

(***************************************************************************)
(* Program constants.                                                      *)
(***************************************************************************)
max_workers == 4
RAISED == -1
None == 0

Legs == {"ms2_catalog", "ms1_identity"}

VARIABLES
    users,      \* identity store: rows of the users table
    catalog,    \* catalog store: the listings
    pc,         \* position of each orchestration
    uni,        \* handle each orchestration was called with
    user_id,    \* numeric owner id resolved in phase 1
    items,      \* listings enumerated in phase 2
    seen,       \* what the stores held and answered when phases 1 and 2 asked
    futures,    \* the two futures of phase 4, per orchestration and leg
    queue,      \* work queue of the shared pool
    legItems,   \* catalog leg: locals of ms2_delete_items_by_user_id
    result,     \* per-leg status collected by the as_completed loop
    errors,     \* errors list, in collection order
    ret,        \* value returned by delete_user_and_items
    calls,      \* adapter calls issued by each orchestration
    response,   \* what DELETE /composite/users/{uni} answered
    legCalls,   \* direct calls of ms2_delete_items_by_user_id, in order
    next_id,    \* next value of the users.user_id autoincrement
    now,        \* datetime.utcnow(), at the resolution the DateTime column keeps
    req         \* requests to the users and auth routers

\* the state of the identity service besides the users table
identityVars == <<next_id, now, req>>

\* the state outside the composite endpoint
beyondFacade == <<legCalls, next_id, now, req>>

\* the state outside delete_user_and_items and the stores it talks to
beyondOrchestrator == <<response, legCalls, next_id, now, req>>

\* the state of the composite deletion
compositeVars == <<catalog, pc, uni, user_id, items, seen, futures, queue,
                   legItems, result, errors, ret, calls, response, legCalls>>

vars == <<users, catalog, pc, uni, user_id, items, seen, futures, queue,
          legItems, result, errors, ret, calls, response, legCalls,
          next_id, now, req>>

----------------------------------------------------------------------------
(* Listings of the catalog store.  A listing carries its identifier under  *)
(* the key item_id or under the key id; the absent key reads as None.      *)

ItemKeyOf(n) == IF n % 2 = 1 THEN "item_id" ELSE "id"

Listing(n, seller, st) ==
    [item_id |-> IF ItemKeyOf(n) = "item_id" THEN n ELSE None,
     id |-> IF ItemKeyOf(n) = "id" THEN n ELSE None,
     seller_id |-> seller, status |-> st]

\* item.get("item_id") or item.get("id")
ItemId(item) == IF item.item_id # None THEN item.item_id ELSE item.id

AllListings == {Listing(n, s, st) : n \in 1..MaxItems, s \in SellerIds, st \in Statuses}

InitialCatalogs ==
    {c \in SUBSET AllListings :
        \A x, y \in c : ItemId(x) = ItemId(y) => x = y}

RECURSIVE SortedById(_)
SortedById(S) ==
    IF S = {} THEN <<>>
    ELSE LET m == CHOOSE x \in S : \A y \in S : ItemId(x) <= ItemId(y)
         IN <<m>> \o SortedById(S \ {m})

RECURSIVE SelectSeqBy(_, _)
SelectSeqBy(s, uid) ==
    IF s = <<>> THEN <<>>
    ELSE (IF Head(s).seller_id = uid THEN <<Head(s)>> ELSE <<>>)
         \o SelectSeqBy(Tail(s), uid)

RECURSIVE SeqToSet(_)
SeqToSet(s) == IF s = <<>> THEN {} ELSE {Head(s)} \cup SeqToSet(Tail(s))

----------------------------------------------------------------------------
(* The identity store (app/users/users.py), as the adapters see it.        *)

UsersNamed(us, h) == {u \in us : u.uni = h}

\* db.query(User).filter(User.uni == uni).first()
FirstUser(us, h) ==
    CHOOSE u \in UsersNamed(us, h) : \A v \in UsersNamed(us, h) : u.user_id <= v.user_id

\* GET /users/{uni}: 404 when no row has the handle, else the row as JSON
get_user(us, h) ==
    IF UsersNamed(us, h) = {} THEN [status_code |-> 404, user_id |-> None]
    ELSE [status_code |-> 200, user_id |-> FirstUser(us, h).user_id]

\* delete_user answering 200 without removing the row
delete_user_NoCommit(us, h) ==
    IF UsersNamed(us, h) = {} THEN [status_code |-> 404, users |-> us]
    ELSE [status_code |-> 200, users |-> us]

\* DELETE /users/{uni}: 404 when no row has the handle, else the row is removed
delete_user(us, h) ==
    IF UsersNamed(us, h) = {} THEN [status_code |-> 404, users |-> us]
    ELSE [status_code |-> 200, users |-> us \ {FirstUser(us, h)}]

(* What a remote call can meet: the store answers, the store answers with  *)
(* a server error, the store cannot be reached, or the store acts and the  *)
(* answer is lost (timeout).                                               *)
GetAnswers == {"answer", "answer_no_id", "http_error", "network"}
DeleteAnswers == {"answer", "http_error", "network", "timeout"}

\* clients.py ms1_get_user: (None, None) on 404, raise on any other failure
ms1_get_user(us, h, ans) ==
    LET r == get_user(us, h) IN
    IF ans \in {"http_error", "network"}
    THEN [raised |-> TRUE, found |-> FALSE, user_id |-> None]
    ELSE IF r.status_code = 404
    THEN [raised |-> FALSE, found |-> FALSE, user_id |-> None]
    ELSE [raised |-> FALSE, found |-> TRUE,
          user_id |-> IF ans = "answer_no_id" THEN None ELSE r.user_id]

\* clients.py ms1_delete_user: (status_code, body); a transport failure raises
ms1_delete_user(us, h, ans) ==
    LET r == delete_user(us, h) IN
    CASE ans = "answer" ->
            [raised |-> FALSE, status_code |-> r.status_code, users |-> r.users]
      [] ans = "http_error" ->
            [raised |-> FALSE, status_code |-> 500, users |-> us]
      [] ans = "network" ->
            [raised |-> TRUE, status_code |-> None, users |-> us]
      [] ans = "timeout" ->
            [raised |-> TRUE, status_code |-> None, users |-> r.users]

----------------------------------------------------------------------------
(* The catalog store, as the adapters see it.                              *)

OwnedBy(cat, uid) == {x \in cat : x.seller_id = uid}

ListShapes == {"array", "envelope", "object"}

\* answers to GET /items?seller_id=...: a 2xx body in one of the shapes, with
\* the seller_id parameter honoured or ignored; 404; a server error; no answer
ListAnswers(cat, uid) ==
    {[kind |-> "ok", shape |-> sh, honoured |-> b] :
        sh \in ListShapes, b \in BOOLEAN}
    \cup {[kind |-> k, shape |-> "array", honoured |-> TRUE] :
            k \in {"http_error", "network"}}
    \cup (IF OwnedBy(cat, uid) = {}
          THEN {[kind |-> "not_found", shape |-> "array", honoured |-> TRUE]}
          ELSE {})

\* answers to the unfiltered GET /items of the fallback
FallbackAnswers ==
    {[kind |-> "ok", shape |-> sh, honoured |-> FALSE] : sh \in ListShapes}
    \cup {[kind |-> "network", shape |-> "array", honoured |-> FALSE]}

\* whether an answer carried the listings: "listed" for a 2xx body in one of
\* the two shapes of the store's contract, "unlisted" for another 2xx body
AnswerKind(a) ==
    IF a.kind # "ok" THEN a.kind
    ELSE IF a.shape \in {"array", "envelope"} THEN "listed" ELSE "unlisted"

\* r.json() of a 2xx answer
JsonBody(cat, uid, a) ==
    [shape |-> a.shape,
     items |-> SortedById(IF a.honoured THEN OwnedBy(cat, uid) ELSE cat)]

\* FilterBody keeping every item of the body, whoever its seller is
FilterBody_NoFilter(body, uid) ==
    IF body.shape \in {"array", "envelope"}
    THEN body.items
    ELSE <<>>

\* FilterBody filtering the bare array only, the envelope's items kept whole
FilterBody_EnvelopeUnfiltered(body, uid) ==
    IF body.shape = "array" THEN SelectSeqBy(body.items, uid)
    ELSE IF body.shape = "envelope" THEN body.items
    ELSE <<>>

\* [item for item in ... if item.get("seller_id") == user_id], per shape
FilterBody(body, uid) ==
    IF body.shape \in {"array", "envelope"}
    THEN SelectSeqBy(body.items, uid)
    ELSE <<>>

\* clients.py ms2_list_items_by_user_id
ms2_list_items_by_user_id(cat, uid, a1, a2) ==
    CASE a1.kind = "ok" ->
            [raised |-> FALSE, items |-> FilterBody(JsonBody(cat, uid, a1), uid)]
      [] a1.kind = "network" ->
            [raised |-> TRUE, items |-> <<>>]
      [] a1.kind = "not_found" ->
            [raised |-> FALSE, items |-> <<>>]
      [] a1.kind = "http_error" ->
            IF a2.kind = "ok"
            THEN [raised |-> FALSE, items |-> FilterBody(JsonBody(cat, uid, a2), uid)]
            ELSE [raised |-> FALSE, items |-> <<>>]

ItemDeleteAnswers == {"answer200", "answer204", "http_error", "network", "timeout"}

\* DELETE /items/{item_id} at the store: the path names the listing
ListingsAt(cat, path) == {x \in cat : ToString(ItemId(x)) = path}

\* clients.py ms2_delete_item: the status code; a transport failure raises
ms2_delete_item(cat, path, ans) ==
    LET hit == ListingsAt(cat, path)
        code == IF hit = {} THEN 404
                ELSE IF ans = "answer204" THEN 204 ELSE 200
    IN
    CASE ans \in {"answer200", "answer204"} ->
            [raised |-> FALSE, status_code |-> code, catalog |-> cat \ hit]
      [] ans = "http_error" ->
            [raised |-> FALSE, status_code |-> 500, catalog |-> cat]
      [] ans = "network" ->
            [raised |-> TRUE, status_code |-> None, catalog |-> cat]
      [] ans = "timeout" ->
            [raised |-> TRUE, status_code |-> None, catalog |-> cat \ hit]

----------------------------------------------------------------------------
(* The orchestrator (app/composite/service.py): pure parts.                *)

LegStatus(tag, code, msg) == [tag |-> tag, code |-> code, msg |-> msg]
Unknown == LegStatus("unknown", None, "")
NoResult == [l \in Legs |-> Unknown]

NoRet == [status_code |-> None, error |-> "", ms1_identity |-> Unknown,
          ms2_catalog |-> Unknown, errors |-> <<>>, blocked_items |-> <<>>]
Raise == [NoRet EXCEPT !.status_code = RAISED]
Return(code, error) == [NoRet EXCEPT !.status_code = code, !.error = error]

\* Phase1Outcome without the existence check of line 25
Phase1Outcome_NoExistenceCheck(r) ==
    IF r.raised THEN RAISED
    ELSE IF r.user_id = None THEN 500
    ELSE 200

\* Phase1Outcome without the user_id check of line 30
Phase1Outcome_NoIdCheck(r) ==
    IF r.raised THEN RAISED
    ELSE IF ~r.found THEN 404
    ELSE 200

\* the outcome of phase 1 from what ms1_get_user gave: lines 24-31
Phase1Outcome(r) ==
    IF r.raised THEN RAISED
    ELSE IF ~r.found THEN 404
    ELSE IF r.user_id = None THEN 500
    ELSE 200

\* the blocking set of line 52 without "sold"
BlockingStatuses_ReservedOnly == {"reserved"}

\* the set of line 52
BlockingStatuses == {"reserved", "sold"}

\* the blocked list built by the loop of lines 48-53
RECURSIVE BlockedItems(_)
BlockedItems(its) ==
    IF its = <<>> THEN <<>>
    ELSE (IF Head(its).status \in BlockingStatuses
          THEN <<ItemId(Head(its))>> ELSE <<>>)
         \o BlockedItems(Tail(its))

\* the outcome of phases 2 and 3 from what ms2_list_items_by_user_id gave
Phase2Outcome(r) ==
    IF r.raised THEN 503
    ELSE IF BlockedItems(r.items) # <<>> THEN 409
    ELSE 200

\* SubmittedLegs skipping the catalog leg when nothing was enumerated
SubmittedLegs_SkipEmpty(its) ==
    IF its = <<>> THEN {"ms1_identity"} ELSE {"ms2_catalog", "ms1_identity"}

\* the futures dict of lines 64-67
SubmittedLegs(its) == {"ms2_catalog", "ms1_identity"}

\* submission order of lines 65-66
Enqueue(q, p, legs) ==
    q \o (IF "ms2_catalog" \in legs THEN << <<p, "ms2_catalog">> >> ELSE <<>>)
      \o (IF "ms1_identity" \in legs THEN << <<p, "ms1_identity">> >> ELSE <<>>)

\* ClassifyCatalog taking 200 alone for a success
ClassifyCatalog_No204(code) ==
    IF code = 200 THEN LegStatus("deleted", None, "")
    ELSE IF code = 404 THEN LegStatus("none", None, "")
    ELSE LegStatus("failed", code, "")

\* lines 83-90
ClassifyCatalog(code) ==
    IF code \in {200, 204} THEN LegStatus("deleted", None, "")
    ELSE IF code = 404 THEN LegStatus("none", None, "")
    ELSE LegStatus("failed", code, "")

\* lines 91-98
ClassifyIdentity(code) ==
    IF code = 200 THEN LegStatus("deleted", None, "")
    ELSE IF code = 404 THEN LegStatus("not_found", None, "")
    ELSE LegStatus("failed", code, "")

\* the body of the as_completed loop for one future: the leg's status
CollectStatus(leg, f) ==
    IF f.raised THEN LegStatus("error", None, "transport")
    ELSE IF leg = "ms2_catalog" THEN ClassifyCatalog(f.status_code)
    ELSE ClassifyIdentity(f.status_code)

\* CollectErrors recording the identity leg only
CollectErrors_IdentityOnly(leg, f) ==
    LET st == CollectStatus(leg, f) IN
    IF st.tag \in {"failed", "error"} /\ leg = "ms1_identity"
    THEN << [leg |-> leg, tag |-> st.tag, code |-> st.code, msg |-> st.msg] >>
    ELSE <<>>

\* the body of the as_completed loop for one future: what it appends to errors
CollectErrors(leg, f) ==
    LET st == CollectStatus(leg, f) IN
    IF st.tag \in {"failed", "error"}
    THEN << [leg |-> leg, tag |-> st.tag, code |-> st.code, msg |-> st.msg] >>
    ELSE <<>>

\* LoopFinished of a loop that stops at the first completed future
LoopFinished_FirstWins(fs, leg) == TRUE

\* as_completed(futures) is exhausted once every submitted future was taken
LoopFinished(fs, leg) ==
    \A l \in Legs \ {leg} : fs[l].state = "none" \/ fs[l].collected

Failed(st) == st.tag \in {"failed", "error"}

\* Reconcile reporting two failed legs as a total failure
Reconcile_TotalFailure(res, errs) ==
    IF res["ms1_identity"].tag = "deleted"
       /\ res["ms2_catalog"].tag \in {"deleted", "none"}
    THEN [NoRet EXCEPT !.status_code = 200,
                       !.ms1_identity = res["ms1_identity"],
                       !.ms2_catalog = res["ms2_catalog"]]
    ELSE [NoRet EXCEPT !.status_code =
                            IF Failed(res["ms1_identity"])
                               /\ Failed(res["ms2_catalog"])
                            THEN 500 ELSE 207,
                       !.ms1_identity = res["ms1_identity"],
                       !.ms2_catalog = res["ms2_catalog"],
                       !.errors = errs]

\* Reconcile reporting a failed catalog leg as catalog unavailable
Reconcile_Unavailable(res, errs) ==
    IF res["ms1_identity"].tag = "deleted"
       /\ res["ms2_catalog"].tag \in {"deleted", "none"}
    THEN [NoRet EXCEPT !.status_code = 200,
                       !.ms1_identity = res["ms1_identity"],
                       !.ms2_catalog = res["ms2_catalog"]]
    ELSE IF Failed(res["ms2_catalog"])
    THEN Return(503, "Catalog service unavailable")
    ELSE [NoRet EXCEPT !.status_code = 207,
                       !.ms1_identity = res["ms1_identity"],
                       !.ms2_catalog = res["ms2_catalog"],
                       !.errors = errs]

\* lines 104-122
Reconcile(res, errs) ==
    LET ms1_status == res["ms1_identity"]
        ms2_status == res["ms2_catalog"]
    IN
    IF ms1_status.tag = "deleted" /\ ms2_status.tag \in {"deleted", "none"}
    THEN [NoRet EXCEPT !.status_code = 200,
                       !.ms1_identity = LegStatus("deleted", None, ""),
                       !.ms2_catalog = IF ms2_status.tag = "deleted"
                                       THEN LegStatus("deleted", None, "")
                                       ELSE LegStatus("none", None, "")]
    ELSE [NoRet EXCEPT !.status_code = 207,
                       !.ms1_identity = ms1_status,
                       !.ms2_catalog = ms2_status,
                       !.errors = errs]

\* AggregateStatus reporting any deleted listing as a full success
AggregateStatus_AnyIsAll(deleted_count, n_items) ==
    IF deleted_count > 0 THEN 200
    ELSE 500

\* lines 97-102 of clients.py: the aggregate status of the bulk delete
AggregateStatus(deleted_count, n_items) ==
    IF deleted_count = n_items THEN 200
    ELSE IF deleted_count > 0 THEN 207
    ELSE 500

\* lines 79-82 of clients.py: the per-item deletes submitted
RECURSIVE ItemPaths(_)
ItemPaths(its) ==
    IF its = <<>> THEN {}
    ELSE (IF ItemId(Head(its)) # None THEN {ToString(ItemId(Head(its)))} ELSE {})
         \cup ItemPaths(Tail(its))

----------------------------------------------------------------------------
(* The identity service itself: the users table (models/user_model.py),    *)
(* the users router (users/users.py) and the sign-in (auth/auth.py).       *)

Reqs == {"r1", "r2"}

\* Python None where a string is expected
NoneStr == "<None>"

\* not v, for a string or None
Falsy(v) == v \in {NoneStr, ""}

\* a row of the users table
Row(id, handle, name, email, gid, seenAt) ==
    [user_id |-> id, uni |-> handle, student_name |-> name,
     dept_name |-> NoneStr, email |-> email, phone |-> NoneStr,
     avatar_url |-> NoneStr, credibility_score |-> 0,
     last_seen_at |-> seenAt, google_id |-> gid]

\* datetime.isoformat()
Iso(t) == "T" \o ToString(t)

\* an ETag or If-Match header: present or not, with or without the weak
\* prefix W/, with or without the surrounding quotes
Header(weak, quoted, value) ==
    [present |-> TRUE, weak |-> weak, quoted |-> quoted, value |-> value]
NoHeader == [present |-> FALSE, weak |-> FALSE, quoted |-> FALSE, value |-> ""]

\* not if_match: the header is missing or the empty string
HeaderFalsy(h) == ~h.present \/ (~h.weak /\ ~h.quoted /\ h.value = "")

\* users.py etag_of: W/"<last_seen_at>" or W/"0"
etag_of(user) ==
    Header(TRUE, TRUE,
           IF user.last_seen_at = None THEN "0" ELSE Iso(user.last_seen_at))

\* users.py normalize_etag: quotes dropped, the weak prefix kept
normalize_etag(h) ==
    IF HeaderFalsy(h) THEN ""
    ELSE IF h.weak THEN "W/" \o h.value
    ELSE h.value

\* replace_user without the comparison of line 249
PutPrecondition_NoCompare(h, found, current) ==
    IF HeaderFalsy(h) THEN 428
    ELSE IF ~found THEN 404
    ELSE 200

\* users.py replace_user, lines 239-250: what the precondition gives
PutPrecondition(h, found, current) ==
    IF HeaderFalsy(h) THEN 428
    ELSE IF ~found THEN 404
    ELSE IF normalize_etag(h) # normalize_etag(current) THEN 412
    ELSE 200

NoWrites == [nothing |-> TRUE]
NoRow == [nothing |-> TRUE]

\* the fields of an UserUpdate payload: None when not provided
Payload(name, dept, phone) ==
    [student_name |-> name, dept_name |-> dept, phone |-> phone]

\* users.py replace_user, lines 252-261: the attributes the request sets
PutWrites(payload, stamp) ==
    LET set == {f \in DOMAIN payload : payload[f] # NoneStr} \cup {"last_seen_at"}
    IN [f \in set |-> IF f = "last_seen_at" THEN stamp ELSE payload[f]]

\* db.commit() of a loaded row: UPDATE users SET <the attributes set>
\* WHERE user_id = <the row's key>
ApplyWrites(us, id, w) ==
    {IF u.user_id = id
     THEN [f \in DOMAIN u |-> IF f \in DOMAIN w THEN w[f] ELSE u[f]]
     ELSE u : u \in us}

\* the unique index on users.google_id (user_model.py line 18)
GoogleIdsUnique(us) ==
    \A u, v \in us :
        (u.google_id # NoneStr /\ u.google_id = v.google_id) => u.user_id = v.user_id

\* the profile claims of the identity provider; a missing claim reads None
Profile(sub, email, name, picture) ==
    [sub |-> sub, email |-> email, name |-> name, picture |-> picture]

\* "@" in email
HasAt(email) == email \in {"jdoe@columbia.edu", "jdoe@barnard.edu", "jdoe_1@columbia.edu",
                           "bob@columbia.edu", "other@columbia.edu",
                           "new@columbia.edu"}

\* email.split("@")[0]
LocalPart(email) ==
    CASE email = "jdoe@columbia.edu" -> "jdoe"
      [] email = "jdoe@barnard.edu" -> "jdoe"
      [] email = "jdoe_1@columbia.edu" -> "jdoe_1"
      [] email = "bob@columbia.edu" -> "bob"
      [] email = "other@columbia.edu" -> "other"
      [] email = "new@columbia.edu" -> "new"
      [] OTHER -> email

\* google_id[:8]
Prefix8(sub) == IF sub = "g234567890" THEN "g2345678" ELSE sub

\* db.query(User).filter(User.<field> == val).first()
RowsWith(us, field, val) == {u \in us : u[field] = val}
FirstWith(us, field, val) ==
    CHOOSE u \in RowsWith(us, field, val) :
        \A v \in RowsWith(us, field, val) : u.user_id <= v.user_id

\* the candidate one suffix ahead of the counter
SuffixedHandle_NextCounter(base_uni, counter) ==
    base_uni \o "_" \o ToString(counter + 1)

\* auth.py line 105: the candidate f"{base_uni}_{counter}"
SuffixedHandle(base_uni, counter) == base_uni \o "_" \o ToString(counter)

\* auth.py lines 102-106: the suffix loop
RECURSIVE DedupLoop(_, _, _, _)
DedupLoop(us, base_uni, handle, counter) ==
    IF UsersNamed(us, handle) # {}
    THEN DedupLoop(us, base_uni, SuffixedHandle(base_uni, counter), counter + 1)
    ELSE handle

\* auth.py line 99: the handle a new account starts from
BaseHandle(info) ==
    IF HasAt(info.email) THEN LocalPart(info.email)
    ELSE "user_" \o Prefix8(info.sub)

\* SignInWrites taking the provider's name whatever name the row has
SignInWrites_NameOverwritten(user, info, name, stamp, link) ==
    LET set == {"last_seen_at"}
               \cup (IF link THEN {"google_id"} ELSE {})
               \cup (IF ~Falsy(name) THEN {"student_name"} ELSE {})
               \cup (IF ~Falsy(info.picture) /\ Falsy(user.avatar_url)
                     THEN {"avatar_url"} ELSE {})
               \cup (IF ~link /\ user.email # info.email THEN {"email"} ELSE {})
    IN [f \in set |->
            CASE f = "last_seen_at" -> stamp
              [] f = "google_id" -> info.sub
              [] f = "student_name" -> name
              [] f = "avatar_url" -> info.picture
              [] f = "email" -> info.email]

\* SignInWrites deriving the handle again from the email it replaces
SignInWrites_HandleFollowsEmail(user, info, name, stamp, link) ==
    LET set == {"last_seen_at"}
               \cup (IF link THEN {"google_id"} ELSE {})
               \cup (IF ~Falsy(name) /\ Falsy(user.student_name)
                     THEN {"student_name"} ELSE {})
               \cup (IF ~Falsy(info.picture) /\ Falsy(user.avatar_url)
                     THEN {"avatar_url"} ELSE {})
               \cup (IF ~link /\ user.email # info.email
                     THEN {"email", "uni"} ELSE {})
    IN [f \in set |->
            CASE f = "last_seen_at" -> stamp
              [] f = "google_id" -> info.sub
              [] f = "student_name" -> name
              [] f = "avatar_url" -> info.picture
              [] f = "email" -> info.email
              [] f = "uni" -> LocalPart(info.email)]

\* auth.py lines 72-78 and 87-92: the attributes a sign-in sets on a row
SignInWrites(user, info, name, stamp, link) ==
    LET set == {"last_seen_at"}
               \cup (IF link THEN {"google_id"} ELSE {})
               \cup (IF ~Falsy(name) /\ Falsy(user.student_name)
                     THEN {"student_name"} ELSE {})
               \cup (IF ~Falsy(info.picture) /\ Falsy(user.avatar_url)
                     THEN {"avatar_url"} ELSE {})
               \cup (IF ~link /\ user.email # info.email THEN {"email"} ELSE {})
    IN [f \in set |->
            CASE f = "last_seen_at" -> stamp
              [] f = "google_id" -> info.sub
              [] f = "student_name" -> name
              [] f = "avatar_url" -> info.picture
              [] f = "email" -> info.email]

\* auth.py get_or_create_user_from_google, up to its commit: what it decides
\* from the rows it reads
get_or_create_user_from_google(us, info, stamp) ==
    LET name == IF info.name = NoneStr THEN "" ELSE info.name IN
    IF Falsy(info.sub) \/ Falsy(info.email)
    THEN [kind |-> "bad_request", target |-> None, writes |-> NoWrites,
          insert |-> NoRow]
    ELSE IF RowsWith(us, "google_id", info.sub) # {}
    THEN LET user == FirstWith(us, "google_id", info.sub) IN
         [kind |-> "update", target |-> user.user_id,
          writes |-> SignInWrites(user, info, name, stamp, FALSE),
          insert |-> NoRow]
    ELSE IF RowsWith(us, "email", info.email) # {}
    THEN LET user == FirstWith(us, "email", info.email) IN
         [kind |-> "link", target |-> user.user_id,
          writes |-> SignInWrites(user, info, name, stamp, TRUE),
          insert |-> NoRow]
    ELSE [kind |-> "create", target |-> None, writes |-> NoWrites,
          insert |-> [Row(None, DedupLoop(us, BaseHandle(info), BaseHandle(info), 1),
                          IF ~Falsy(name) THEN name
                          ELSE LocalPart(info.email),
                          info.email, info.sub, stamp)
                        EXCEPT !.avatar_url = info.picture]]

\* auth.py google_callback, lines 196-225: an exception of
\* get_or_create_user_from_google becomes 500 in production; elsewhere the
\* handler fails on the unbound name user and the exception leaves it
CallbackFailure(is_production) == IF is_production THEN 500 ELSE RAISED

----------------------------------------------------------------------------
(* The state machine.                                                      *)

NoFuture == [state |-> "none", raised |-> FALSE, status_code |-> None,
             collected |-> FALSE]
NoLeg == [stage |-> "idle", n_items |-> 0, pending |-> {},
          deleted_count |-> 0, failed_count |-> 0, unreachable |-> FALSE,
          status |-> None]
NoCalls == [get_user |-> 0, list_items |-> 0, delete_items |-> 0,
            delete_user |-> 0, delete_item |-> 0]
NoSeen == [account |-> "none", lookup |-> "none", owned |-> {},
           answer |-> "none", fallback |-> "none"]

NoReq == [op |-> "none", pc |-> "new", status_code |-> None, uni |-> "",
          if_match |-> NoHeader, info |-> NoRow, kind |-> "none",
          target |-> None, writes |-> NoWrites, insert |-> NoRow,
          etag_before |-> NoHeader, etag_after |-> NoHeader]

NoResponse == [status_code |-> None, via |-> "none", detail |-> "", body |-> NoRet]

Init ==
    /\ users = InitialUsers
    /\ catalog \in InitialCatalogs
    /\ pc = [p \in Procs |-> "idle"]
    /\ uni = [p \in Procs |-> ""]
    /\ user_id = [p \in Procs |-> None]
    /\ items = [p \in Procs |-> <<>>]
    /\ seen = [p \in Procs |-> NoSeen]
    /\ futures = [p \in Procs |-> [l \in Legs |-> NoFuture]]
    /\ queue = <<>>
    /\ legItems = [p \in Procs |-> NoLeg]
    /\ result = [p \in Procs |-> NoResult]
    /\ errors = [p \in Procs |-> <<>>]
    /\ ret = [p \in Procs |-> NoRet]
    /\ calls = [p \in Procs |-> NoCalls]
    /\ response = [p \in Procs |-> NoResponse]
    /\ legCalls = <<>>
    /\ next_id = 2
    /\ now = 1
    /\ req = [r \in Reqs |-> NoReq]

Bump(c, field) == [c EXCEPT ![field] = @ + 1]

\* delete_user_and_items, lines 24-31: resolve the handle
Phase1(p) ==
    /\ pc[p] = "idle"
    /\ \E h \in Handles, ans \in GetAnswers :
        LET r == ms1_get_user(users, h, ans)
            o == Phase1Outcome(r)
        IN /\ uni' = [uni EXCEPT ![p] = h]
           /\ user_id' = [user_id EXCEPT ![p] = r.user_id]
           /\ seen' = [seen EXCEPT ![p] =
                        [@ EXCEPT !.account = IF UsersNamed(users, h) = {}
                                              THEN "absent" ELSE "present",
                                  !.lookup = IF r.raised THEN "failed"
                                             ELSE "answered"]]
           /\ calls' = [calls EXCEPT ![p] = Bump(@, "get_user")]
           /\ pc' = [pc EXCEPT ![p] = IF o = 200 THEN "enumerate" ELSE "done"]
           /\ ret' = [ret EXCEPT ![p] =
                        CASE o = RAISED -> Raise
                          [] o = 404 -> Return(404, "User not found")
                          [] o = 500 -> Return(500, "User data missing user_id")
                          [] OTHER -> @]
    /\ UNCHANGED <<users, catalog, items, futures, queue, legItems,
                   result, errors>>
    /\ UNCHANGED beyondOrchestrator

\* delete_user_and_items, lines 36-67: enumerate, check the blocking
\* statuses, submit the two legs
Phase2(p) ==
    /\ pc[p] = "enumerate"
    /\ \E a1 \in ListAnswers(catalog, user_id[p]), a2 \in FallbackAnswers :
        LET r == ms2_list_items_by_user_id(catalog, user_id[p], a1, a2)
            o == Phase2Outcome(r)
            legs == SubmittedLegs(r.items)
        IN /\ seen' = [seen EXCEPT ![p] =
                        [@ EXCEPT !.owned = OwnedBy(catalog, user_id[p]),
                                  !.answer = AnswerKind(a1),
                                  !.fallback = IF a1.kind = "http_error"
                                               THEN AnswerKind(a2) ELSE "none"]]
           /\ calls' = [calls EXCEPT ![p] = Bump(@, "list_items")]
           /\ items' = [items EXCEPT ![p] = r.items]
           /\ IF o = 200
              THEN /\ futures' = [futures EXCEPT ![p] =
                                    [l \in Legs |-> IF l \in legs
                                        THEN [NoFuture EXCEPT !.state = "queued"]
                                        ELSE NoFuture]]
                   /\ queue' = Enqueue(queue, p, legs)
                   /\ pc' = [pc EXCEPT ![p] = "await"]
                   /\ ret' = ret
              ELSE /\ ret' = [ret EXCEPT ![p] =
                        IF o = 503
                        THEN Return(503, "Catalog service unavailable")
                        ELSE [Return(409, "Active reservations/sales exist")
                                EXCEPT !.blocked_items = BlockedItems(r.items)]]
                   /\ pc' = [pc EXCEPT ![p] = "done"]
                   /\ UNCHANGED <<futures, queue>>
    /\ UNCHANGED <<users, catalog, uni, user_id, legItems, result, errors>>
    /\ UNCHANGED beyondOrchestrator

\* the workers of a pool that never hands a worker back
Running_NeverReleased ==
    {t \in (DOMAIN futures) \X Legs :
        futures[t[1]][t[2]].state \in {"running", "done"}}

\* the tasks holding a worker of the shared pool
Running ==
    {t \in (DOMAIN futures) \X Legs : futures[t[1]][t[2]].state = "running"}

\* the shared pool: a free worker takes the oldest queued task
TaskStart(p, leg) ==
    /\ queue # <<>>
    /\ Head(queue) = <<p, leg>>
    /\ Cardinality(Running) < max_workers
    /\ queue' = Tail(queue)
    /\ futures' = [futures EXCEPT ![p][leg].state = "running"]
    /\ UNCHANGED <<users, catalog, pc, uni, user_id, items, seen, legItems,
                   result, errors, ret, calls>>
    /\ UNCHANGED beyondOrchestrator

\* the identity leg: ms1_delete_user(uni) on a worker
IdentityLeg(p) ==
    /\ futures[p]["ms1_identity"].state = "running"
    /\ \E ans \in DeleteAnswers :
        LET r == ms1_delete_user(users, uni[p], ans) IN
        /\ users' = r.users
        /\ futures' = [futures EXCEPT ![p]["ms1_identity"] =
                        [@ EXCEPT !.state = "done", !.raised = r.raised,
                                  !.status_code = r.status_code]]
    /\ calls' = [calls EXCEPT ![p] = Bump(@, "delete_user")]
    /\ UNCHANGED <<catalog, pc, uni, user_id, items, seen, queue, legItems,
                   result, errors, ret>>
    /\ UNCHANGED beyondOrchestrator

\* the catalog leg, ms2_delete_items_by_user_id lines 67-82: enumerate
\* again, return 404 when there is nothing, else submit the per-item deletes
CatalogLegList(p) ==
    /\ futures[p]["ms2_catalog"].state = "running"
    /\ legItems[p].stage = "idle"
    /\ \E a1 \in ListAnswers(catalog, user_id[p]), a2 \in FallbackAnswers :
        LET r == ms2_list_items_by_user_id(catalog, user_id[p], a1, a2)
            paths == ItemPaths(r.items)
            lost == a1.kind = "network"
                    \/ (a1.kind = "http_error" /\ a2.kind = "network")
            code == IF r.raised \/ r.items = <<>> THEN 404
                    ELSE AggregateStatus(0, Len(r.items))
        IN IF r.raised \/ r.items = <<>> \/ paths = {}
           THEN /\ legItems' = [legItems EXCEPT ![p] =
                        [@ EXCEPT !.stage = "returned", !.unreachable = lost,
                                  !.n_items = Len(r.items)]]
                /\ futures' = [futures EXCEPT ![p]["ms2_catalog"] =
                        [@ EXCEPT !.state = "done", !.status_code = code]]
           ELSE /\ legItems' = [legItems EXCEPT ![p] =
                        [@ EXCEPT !.stage = "deleting", !.unreachable = lost,
                                  !.n_items = Len(r.items), !.pending = paths]]
                /\ futures' = futures
    /\ calls' = [calls EXCEPT ![p] = Bump(Bump(@, "delete_items"), "list_items")]
    /\ UNCHANGED <<users, catalog, pc, uni, user_id, items, seen, queue,
                   result, errors, ret>>
    /\ UNCHANGED beyondOrchestrator

\* the catalog leg, lines 84-102: one per-item delete completes; the last
\* one to complete makes the leg return the aggregate status
CatalogLegDeleteItem(p) ==
    /\ legItems[p].stage = "deleting"
    /\ \E path \in legItems[p].pending, ans \in ItemDeleteAnswers :
        LET r == ms2_delete_item(catalog, path, ans)
            ok == ~r.raised /\ r.status_code \in {200, 204}
            d == legItems[p].deleted_count + (IF ok THEN 1 ELSE 0)
            f == legItems[p].failed_count + (IF ok THEN 0 ELSE 1)
            rest == legItems[p].pending \ {path}
        IN /\ catalog' = r.catalog
           /\ legItems' = [legItems EXCEPT ![p] =
                    [@ EXCEPT !.pending = rest, !.deleted_count = d,
                              !.failed_count = f,
                              !.status = IF r.raised THEN RAISED
                                         ELSE r.status_code,
                              !.unreachable = @ \/ r.raised,
                              !.stage = IF rest = {} THEN "returned" ELSE @]]
           /\ futures' = IF rest = {}
                         THEN [futures EXCEPT ![p]["ms2_catalog"] =
                                [@ EXCEPT !.state = "done",
                                          !.status_code =
                                            AggregateStatus(d, legItems[p].n_items)]]
                         ELSE futures
    /\ calls' = [calls EXCEPT ![p] = Bump(@, "delete_item")]
    /\ UNCHANGED <<users, pc, uni, user_id, items, seen, queue, result,
                   errors, ret>>
    /\ UNCHANGED beyondOrchestrator

\* delete_user_and_items, lines 72-122: the as_completed loop takes one
\* completed future; after the last one the outcome is reconciled
Collect(p, leg) ==
    /\ pc[p] = "await"
    /\ futures[p][leg].state = "done"
    /\ ~futures[p][leg].collected
    /\ LET f == futures[p][leg]
           res == [result[p] EXCEPT ![leg] = CollectStatus(leg, f)]
           errs == errors[p] \o CollectErrors(leg, f)
           last == LoopFinished(futures[p], leg)
       IN /\ result' = [result EXCEPT ![p] = res]
          /\ errors' = [errors EXCEPT ![p] = errs]
          /\ futures' = [futures EXCEPT ![p][leg].collected = TRUE]
          /\ IF last
             THEN /\ ret' = [ret EXCEPT ![p] = Reconcile(res, errs)]
                  /\ pc' = [pc EXCEPT ![p] = "done"]
             ELSE UNCHANGED <<ret, pc>>
    /\ UNCHANGED <<users, catalog, uni, user_id, items, seen, queue,
                   legItems, calls>>
    /\ UNCHANGED beyondOrchestrator

\* composite_delete_user answering 200 whatever the orchestrator returned
composite_delete_user_DefaultStatus(r) ==
    IF r.status_code = RAISED
    THEN [status_code |-> RAISED, via |-> "raise", detail |-> "", body |-> NoRet]
    ELSE IF r.status_code = 404
    THEN [status_code |-> 404, via |-> "HTTPException", detail |-> r.error,
          body |-> NoRet]
    ELSE IF r.status_code = 409
    THEN [status_code |-> 409, via |-> "HTTPException", detail |-> "", body |-> r]
    ELSE [status_code |-> 200, via |-> "JSONResponse", detail |-> "", body |-> r]

\* router.py composite_delete_user, lines 27-35: the answer made from what
\* delete_user_and_items returned; an exception of it propagates
composite_delete_user(r) ==
    IF r.status_code = RAISED
    THEN [status_code |-> RAISED, via |-> "raise", detail |-> "", body |-> NoRet]
    ELSE IF r.status_code = 404
    THEN [status_code |-> 404, via |-> "HTTPException", detail |-> r.error,
          body |-> NoRet]
    ELSE IF r.status_code = 409
    THEN [status_code |-> 409, via |-> "HTTPException", detail |-> "", body |-> r]
    ELSE [status_code |-> r.status_code, via |-> "JSONResponse", detail |-> "",
          body |-> r]

\* router.py composite_delete_user: the endpoint answers once the
\* orchestrator has returned
Respond(p) ==
    /\ pc[p] = "done"
    /\ response[p].via = "none"
    /\ response' = [response EXCEPT ![p] = composite_delete_user(ret[p])]
    /\ UNCHANGED <<users, catalog, pc, uni, user_id, items, seen, futures,
                   queue, legItems, result, errors, ret, calls>>
    /\ UNCHANGED beyondFacade

\* users.py delete_user called directly (DELETE /users/{uni})
DirectDelete(h) ==
    /\ delete_user(users, h).status_code = 200
    /\ users' = delete_user(users, h).users
    /\ UNCHANGED <<catalog, pc, uni, user_id, items, seen, futures, queue,
                   legItems, result, errors, ret, calls>>
    /\ UNCHANGED beyondOrchestrator

\* the catalog store on its own: a buyer reserves an available listing
CatalogReserve(x) ==
    /\ x \in catalog
    /\ x.status = "available"
    /\ catalog' = (catalog \ {x}) \cup {[x EXCEPT !.status = "reserved"]}
    /\ UNCHANGED <<users, pc, uni, user_id, items, seen, futures, queue,
                   legItems, result, errors, ret, calls>>
    /\ UNCHANGED beyondOrchestrator

Next ==
    \/ \E p \in Procs : Phase1(p)
    \/ \E p \in Procs : Phase2(p)
    \/ \E p \in Procs, leg \in Legs : TaskStart(p, leg)
    \/ \E p \in Procs : IdentityLeg(p)
    \/ \E p \in Procs : CatalogLegList(p)
    \/ \E p \in Procs : CatalogLegDeleteItem(p)
    \/ \E p \in Procs, leg \in Legs : Collect(p, leg)
    \/ \E p \in Procs : Respond(p)
    \/ \E h \in Handles : DirectDelete(h)
    \/ \E x \in AllListings : CatalogReserve(x)

Spec == Init /\ [][Next]_vars

----------------------------------------------------------------------------
(* SpecLeg: ms2_delete_items_by_user_id called directly, several times in  *)
(* a row, for one owner, with nothing else acting on the catalog store.    *)

\* a listing whose JSON carries neither item_id nor id
NoIdListing == [item_id |-> None, id |-> None, seller_id |-> 1,
                status |-> "available"]

LegCatalogs == InitialCatalogs \cup {c \cup {NoIdListing} : c \in InitialCatalogs}

InitLeg ==
    /\ users = InitialUsers
    /\ catalog \in LegCatalogs
    /\ pc = [p \in Procs |-> "idle"]
    /\ uni = [p \in Procs |-> ""]
    /\ user_id \in [Procs -> SellerIds]
    /\ items = [p \in Procs |-> <<>>]
    /\ seen = [p \in Procs |-> NoSeen]
    /\ futures = [p \in Procs |-> [l \in Legs |-> NoFuture]]
    /\ queue = <<>>
    /\ legItems = [p \in Procs |-> NoLeg]
    /\ result = [p \in Procs |-> NoResult]
    /\ errors = [p \in Procs |-> <<>>]
    /\ ret = [p \in Procs |-> NoRet]
    /\ calls = [p \in Procs |-> NoCalls]
    /\ response = [p \in Procs |-> NoResponse]
    /\ legCalls = <<>>
    /\ next_id = 2
    /\ now = 1
    /\ req = [r \in Reqs |-> NoReq]

\* ms2_delete_items_by_user_id(user_id) is entered
LegCall(p) ==
    /\ futures[p]["ms2_catalog"].state = "none"
    /\ Len(legCalls) < MaxLegCalls
    /\ futures' = [futures EXCEPT ![p]["ms2_catalog"] =
                    [NoFuture EXCEPT !.state = "running"]]
    /\ legItems' = [legItems EXCEPT ![p] = NoLeg]
    /\ legCalls' = Append(legCalls,
                        [owner |-> user_id[p], before |-> catalog,
                         status_code |-> None, after |-> {}])
    /\ UNCHANGED <<users, catalog, pc, uni, user_id, items, seen, queue,
                   result, errors, ret, calls, response>>
    /\ UNCHANGED identityVars

\* ms2_delete_items_by_user_id returns its status code
LegReturn(p) ==
    /\ futures[p]["ms2_catalog"].state = "done"
    /\ legCalls' = [legCalls EXCEPT ![Len(legCalls)] =
                        [@ EXCEPT !.status_code = futures[p]["ms2_catalog"].status_code,
                                  !.after = catalog]]
    /\ futures' = [futures EXCEPT ![p]["ms2_catalog"] = NoFuture]
    /\ UNCHANGED <<users, catalog, pc, uni, user_id, items, seen, queue,
                   legItems, result, errors, ret, calls, response>>
    /\ UNCHANGED identityVars

NextLeg ==
    \/ \E p \in Procs : LegCall(p)
    \/ \E p \in Procs : CatalogLegList(p)
    \/ \E p \in Procs : CatalogLegDeleteItem(p)
    \/ \E p \in Procs : LegReturn(p)

SpecLeg == InitLeg /\ [][NextLeg]_vars

----------------------------------------------------------------------------
(* SpecCollect: the as_completed loop of lines 72-101 applied to two       *)
(* completed futures, whatever status code each leg returned or whether    *)
(* it raised.                                                              *)

LegCodes == {200, 204, 207, 404, 500, 503}

CompletedFutures ==
    {[NoFuture EXCEPT !.state = "done", !.status_code = c] : c \in LegCodes}
    \cup {[NoFuture EXCEPT !.state = "done", !.raised = TRUE]}

InitCollect ==
    /\ users = InitialUsers
    /\ catalog = {}
    /\ pc = [p \in Procs |-> "await"]
    /\ uni = [p \in Procs |-> "abc123"]
    /\ user_id = [p \in Procs |-> 1]
    /\ items = [p \in Procs |-> <<>>]
    /\ seen = [p \in Procs |->
                [NoSeen EXCEPT !.account = "present", !.lookup = "answered",
                               !.answer = "listed"]]
    /\ futures \in [Procs -> [Legs -> CompletedFutures]]
    /\ queue = <<>>
    /\ legItems = [p \in Procs |-> NoLeg]
    /\ result = [p \in Procs |-> NoResult]
    /\ errors = [p \in Procs |-> <<>>]
    /\ ret = [p \in Procs |-> NoRet]
    /\ calls = [p \in Procs |-> Bump(Bump(NoCalls, "get_user"), "list_items")]
    /\ response = [p \in Procs |-> NoResponse]
    /\ legCalls = <<>>
    /\ next_id = 2
    /\ now = 1
    /\ req = [r \in Reqs |-> NoReq]

NextCollect == \E p \in Procs, leg \in Legs : Collect(p, leg)

SpecCollect == InitCollect /\ [][NextCollect]_vars

----------------------------------------------------------------------------
(* SpecPool: several calls of delete_user_and_items for the same account   *)
(* in flight at once, all past phase 3, their legs submitted to the one    *)
(* pool of service.py line 10: three calls for an account without a        *)
(* listing (six tasks for four workers), or two calls for an account with  *)
(* a listing.  Every remote call terminates, by an answer or by its        *)
(* timeout, and a free worker takes the oldest queued task.                *)

MaxOrchestrations == 3
PoolProcs == {"p" \o ToString(i) : i \in 1..MaxOrchestrations}
ProcsUpTo(n) == {"p" \o ToString(i) : i \in 1..n}

\* lines 64-67 run by n calls, one after the other
RECURSIVE SubmitAll(_)
SubmitAll(n) ==
    IF n = 0 THEN <<>>
    ELSE Enqueue(SubmitAll(n - 1), "p" \o ToString(n), Legs)

PoolCatalog == {Listing(1, 1, "available")}

\* the first n calls are past phase 3, the others have not begun
InFlight(n, cat) ==
    /\ users = InitialUsers
    /\ catalog = cat
    /\ pc = [p \in PoolProcs |-> IF p \in ProcsUpTo(n) THEN "await" ELSE "idle"]
    /\ uni = [p \in PoolProcs |-> IF p \in ProcsUpTo(n) THEN "abc123" ELSE ""]
    /\ user_id = [p \in PoolProcs |-> IF p \in ProcsUpTo(n) THEN 1 ELSE None]
    /\ items = [p \in PoolProcs |->
                    IF p \in ProcsUpTo(n) THEN SortedById(OwnedBy(cat, 1))
                    ELSE <<>>]
    /\ seen = [p \in PoolProcs |->
                IF p \in ProcsUpTo(n)
                THEN [NoSeen EXCEPT !.account = "present",
                                    !.lookup = "answered",
                                    !.owned = OwnedBy(cat, 1),
                                    !.answer = "listed"]
                ELSE NoSeen]
    /\ futures = [p \in PoolProcs |->
                    [l \in Legs |->
                        IF p \in ProcsUpTo(n)
                        THEN [NoFuture EXCEPT !.state = "queued"]
                        ELSE NoFuture]]
    /\ queue = SubmitAll(n)
    /\ legItems = [p \in PoolProcs |-> NoLeg]
    /\ result = [p \in PoolProcs |-> NoResult]
    /\ errors = [p \in PoolProcs |-> <<>>]
    /\ ret = [p \in PoolProcs |-> NoRet]
    /\ calls = [p \in PoolProcs |->
                    IF p \in ProcsUpTo(n)
                    THEN Bump(Bump(NoCalls, "get_user"), "list_items")
                    ELSE NoCalls]
    /\ response = [p \in PoolProcs |-> NoResponse]
    /\ legCalls = <<>>
    /\ next_id = 2
    /\ now = 1
    /\ req = [r \in Reqs |-> NoReq]

InitPool ==
    \/ InFlight(MaxOrchestrations, {})
    \/ InFlight(MaxOrchestrations - 1, PoolCatalog)

NextPool ==
    \/ \E p \in PoolProcs, leg \in Legs : TaskStart(p, leg)
    \/ \E p \in PoolProcs : IdentityLeg(p)
    \/ \E p \in PoolProcs : CatalogLegList(p)
    \/ \E p \in PoolProcs : CatalogLegDeleteItem(p)
    \/ \E p \in PoolProcs, leg \in Legs : Collect(p, leg)

\* the worker threads of the pool and the calling threads keep running
FairPool ==
    /\ \A p \in PoolProcs, leg \in Legs : WF_vars(TaskStart(p, leg))
    /\ \A p \in PoolProcs : WF_vars(IdentityLeg(p))
    /\ \A p \in PoolProcs : WF_vars(CatalogLegList(p))
    /\ \A p \in PoolProcs : WF_vars(CatalogLegDeleteItem(p))
    /\ \A p \in PoolProcs, leg \in Legs : WF_vars(Collect(p, leg))

SpecPool == InitPool /\ [][NextPool]_vars /\ FairPool

----------------------------------------------------------------------------
(* SpecUsers: requests to the users router and sign-ins, each a read of    *)
(* the users table followed by a commit, against one shared database.      *)

SeedUsers ==
    {Row(1, "jdoe", "Ann", "jdoe@columbia.edu", NoneStr, None),
     Row(2, "jdoe_1", "", "other@columbia.edu", "g9", 1)}

PutHandles == {"jdoe", "nobody"}

TokenValues == {"0"} \cup {Iso(t) : t \in 1..MaxClock}

IfMatchHeaders ==
    {NoHeader, Header(FALSE, FALSE, "")}
    \cup {Header(w, q, v) : w \in BOOLEAN, q \in BOOLEAN, v \in TokenValues}

PutPayloads == {Payload("Bob", NoneStr, NoneStr), Payload(NoneStr, "CS", "555")}

CreatePayloads ==
    {[uni |-> "jdoe", student_name |-> "Bob", email |-> "bob@columbia.edu"],
     [uni |-> "jdoe_1", student_name |-> "Bob", email |-> "jdoe@columbia.edu"]}

SignInProfiles ==
    {Profile("g1", "jdoe@columbia.edu", "Jane", "pic"),
     Profile("g2", "jdoe@barnard.edu", "", NoneStr),
     Profile("g1", "jdoe_1@columbia.edu", "Jane", NoneStr),
     Profile(NoneStr, "jdoe@columbia.edu", "Jane", NoneStr),
     Profile("g2", NoneStr, NoneStr, NoneStr),
     Profile("g234567890", "jdoe", NoneStr, NoneStr),
     Profile("g9", "new@columbia.edu", "Jane", "pic")}

DeleteHandles == {"jdoe", "jdoe_1", "nobody"}

\* what the catalog store holds beside the users table: nothing, or listings
\* of the seed accounts in blocking statuses
UsersCatalogs ==
    {{}, {Listing(1, 1, "reserved"), Listing(2, 1, "sold")}}

InitUsers ==
    /\ users \in SUBSET SeedUsers
    /\ next_id = 3
    /\ now = 1
    /\ req = [r \in Reqs |-> NoReq]
    /\ catalog \in UsersCatalogs
    /\ pc = [p \in Procs |-> "idle"]
    /\ uni = [p \in Procs |-> ""]
    /\ user_id = [p \in Procs |-> None]
    /\ items = [p \in Procs |-> <<>>]
    /\ seen = [p \in Procs |-> NoSeen]
    /\ futures = [p \in Procs |-> [l \in Legs |-> NoFuture]]
    /\ queue = <<>>
    /\ legItems = [p \in Procs |-> NoLeg]
    /\ result = [p \in Procs |-> NoResult]
    /\ errors = [p \in Procs |-> <<>>]
    /\ ret = [p \in Procs |-> NoRet]
    /\ calls = [p \in Procs |-> NoCalls]
    /\ response = [p \in Procs |-> NoResponse]
    /\ legCalls = <<>>

\* the clock advances
Tick ==
    /\ now < MaxClock
    /\ now' = now + 1
    /\ UNCHANGED <<users, next_id, req>>
    /\ UNCHANGED compositeVars

\* users.py replace_user, lines 239-261: the precondition, the row read and
\* the attributes set on it
PutRead(r) ==
    /\ req[r].pc = "new"
    /\ \E h \in PutHandles, im \in IfMatchHeaders, payload \in PutPayloads :
        LET found == UsersNamed(users, h) # {}
            current == IF found THEN etag_of(FirstUser(users, h)) ELSE NoHeader
            code == PutPrecondition(im, found, current)
        IN req' = [req EXCEPT ![r] =
                    [@ EXCEPT !.op = "put", !.uni = h, !.if_match = im,
                              !.etag_before = current,
                              !.pc = IF code = 200 THEN "commit" ELSE "done",
                              !.status_code = IF code = 200 THEN None ELSE code,
                              !.target = IF code = 200
                                         THEN FirstUser(users, h).user_id ELSE None,
                              !.writes = IF code = 200
                                         THEN PutWrites(payload, now)
                                         ELSE NoWrites]]
    /\ UNCHANGED <<users, next_id, now>>
    /\ UNCHANGED compositeVars

\* users.py replace_user, lines 263-281: commit, refresh, answer with the
\* new ETag
PutCommit(r) ==
    /\ req[r].op = "put"
    /\ req[r].pc = "commit"
    /\ IF \E u \in users : u.user_id = req[r].target
       THEN LET after == ApplyWrites(users, req[r].target, req[r].writes)
                row == CHOOSE u \in after : u.user_id = req[r].target
            IN /\ users' = after
               /\ req' = [req EXCEPT ![r] =
                            [@ EXCEPT !.pc = "done", !.status_code = 200,
                                      !.etag_after = etag_of(row)]]
       ELSE /\ users' = users
            /\ req' = [req EXCEPT ![r] =
                            [@ EXCEPT !.pc = "done", !.status_code = RAISED]]
    /\ UNCHANGED <<next_id, now>>
    /\ UNCHANGED compositeVars

\* users.py create_user, lines 112-126: the duplicate check and the new row
CreateRead(r) ==
    /\ req[r].pc = "new"
    /\ \E payload \in CreatePayloads :
        LET dup == UsersNamed(users, payload.uni) # {} IN
        req' = [req EXCEPT ![r] =
                    [@ EXCEPT !.op = "create", !.uni = payload.uni,
                              !.pc = IF dup THEN "done" ELSE "commit",
                              !.status_code = IF dup THEN 409 ELSE None,
                              !.kind = IF dup THEN "none" ELSE "create",
                              !.insert = IF dup THEN NoRow
                                         ELSE Row(None, payload.uni,
                                                  payload.student_name,
                                                  payload.email, NoneStr, None)]]
    /\ UNCHANGED <<users, next_id, now>>
    /\ UNCHANGED compositeVars

\* users.py create_user, lines 128-144: db.add, db.commit, 201
CreateCommit(r) ==
    /\ req[r].op = "create"
    /\ req[r].pc = "commit"
    /\ users' = users \cup {[req[r].insert EXCEPT !.user_id = next_id]}
    /\ next_id' = next_id + 1
    /\ req' = [req EXCEPT ![r] =
                [@ EXCEPT !.pc = "done", !.status_code = 201, !.target = next_id]]
    /\ UNCHANGED now
    /\ UNCHANGED compositeVars

\* auth.py google_callback calling get_or_create_user_from_google, up to
\* the commit
SignInRead(r) ==
    /\ req[r].pc = "new"
    /\ \E info \in SignInProfiles, is_production \in BOOLEAN :
        LET d == get_or_create_user_from_google(users, info, now) IN
        req' = [req EXCEPT ![r] =
                    [@ EXCEPT !.op = "signin", !.info = info, !.kind = d.kind,
                              !.pc = IF d.kind = "bad_request" THEN "done"
                                     ELSE "commit",
                              !.status_code = IF d.kind = "bad_request"
                                              THEN CallbackFailure(is_production)
                                              ELSE None,
                              !.target = d.target, !.writes = d.writes,
                              !.insert = d.insert,
                              !.uni = IF d.kind = "create" THEN d.insert.uni
                                      ELSE ""]]
    /\ UNCHANGED <<users, next_id, now>>
    /\ UNCHANGED compositeVars

\* auth.py get_or_create_user_from_google, its db.commit() (lines 79, 93,
\* 119), and google_callback answering with the redirect or the failure
SignInCommit(r) ==
    /\ req[r].op = "signin"
    /\ req[r].pc = "commit"
    /\ \E is_production \in BOOLEAN :
        LET after == IF req[r].kind = "create"
                     THEN users \cup {[req[r].insert EXCEPT !.user_id = next_id]}
                     ELSE ApplyWrites(users, req[r].target, req[r].writes)
            ok == /\ GoogleIdsUnique(after)
                  /\ (req[r].kind # "create" =>
                        \E u \in users : u.user_id = req[r].target)
        IN IF ok
           THEN /\ users' = after
                /\ next_id' = IF req[r].kind = "create" THEN next_id + 1
                               ELSE next_id
                /\ req' = [req EXCEPT ![r] =
                            [@ EXCEPT !.pc = "done", !.status_code = 307,
                                      !.target = IF req[r].kind = "create"
                                                 THEN next_id ELSE @]]
           ELSE /\ users' = users
                /\ next_id' = IF req[r].kind = "create" THEN next_id + 1
                               ELSE next_id
                /\ req' = [req EXCEPT ![r] =
                            [@ EXCEPT !.pc = "done",
                                      !.status_code = CallbackFailure(is_production)]]
    /\ UNCHANGED now
    /\ UNCHANGED compositeVars

\* users.py delete_user, lines 285-293: the row read, deleted and committed
\* in one transaction, or 404
DeleteUser(r) ==
    /\ req[r].pc = "new"
    /\ \E h \in DeleteHandles :
        LET d == delete_user(users, h) IN
        /\ users' = d.users
        /\ req' = [req EXCEPT ![r] =
                    [@ EXCEPT !.op = "delete", !.uni = h, !.pc = "done",
                              !.status_code = d.status_code,
                              !.target = IF d.status_code = 200
                                         THEN FirstUser(users, h).user_id
                                         ELSE None]]
    /\ UNCHANGED <<next_id, now>>
    /\ UNCHANGED compositeVars

NextUsers ==
    \/ Tick
    \/ \E r \in Reqs : DeleteUser(r)
    \/ \E r \in Reqs : PutRead(r)
    \/ \E r \in Reqs : PutCommit(r)
    \/ \E r \in Reqs : CreateRead(r)
    \/ \E r \in Reqs : CreateCommit(r)
    \/ \E r \in Reqs : SignInRead(r)
    \/ \E r \in Reqs : SignInCommit(r)

SpecUsers == InitUsers /\ [][NextUsers]_vars

----------------------------------------------------------------------------
(* Properties of the composite deletion.                                   *)

Done(p) == pc[p] = "done"
IdFut(p) == futures[p]["ms1_identity"]
CatFut(p) == futures[p]["ms2_catalog"]

NoDestructiveCalls(p) ==
    /\ calls[p].delete_items = 0
    /\ calls[p].delete_user = 0
    /\ calls[p].delete_item = 0

NoCatalogCalls(p) ==
    /\ calls[p].list_items = 0
    /\ calls[p].delete_items = 0
    /\ calls[p].delete_item = 0

\* the listings the account owned at the enumeration that block its deletion
BlockingOwned(p) == {x \in seen[p].owned : x.status \in {"reserved", "sold"}}

IdFailed(p) ==
    IdFut(p).state = "done"
    /\ (IdFut(p).raised \/ IdFut(p).status_code \notin {200, 404})
IdOk(p) ==
    IdFut(p).state = "done"
    /\ ~IdFut(p).raised /\ IdFut(p).status_code \in {200, 404}
CatFailed(p) ==
    CatFut(p).state = "done"
    /\ (CatFut(p).raised \/ CatFut(p).status_code \notin {200, 204, 404})
CatOk(p) ==
    CatFut(p).state = "done"
    /\ ~CatFut(p).raised /\ CatFut(p).status_code \in {200, 204, 404}

\* C1: a handle with no account in the identity store gets 404 once the
\* store has answered the lookup, and the orchestration issues no call to
\* the catalog adapter (list or delete) and no identity delete.
C1_NotFoundNoCalls ==
    \A p \in Procs :
        seen[p].account = "absent" =>
            /\ NoCatalogCalls(p)
            /\ calls[p].delete_user = 0
            /\ seen[p].lookup = "answered" =>
                    (Done(p) /\ ret[p].status_code = 404)

C1_Witness ==
    \E p \in Procs :
        /\ Done(p) /\ seen[p].account = "absent" /\ seen[p].lookup = "answered"
        /\ calls[p].get_user = 1 /\ ret[p].status_code = 404

\* C2: when the enumeration is answered with the listings and the account
\* owns a reserved or sold listing, the outcome is 409, blocked_items holds
\* exactly the ids of the account's reserved or sold listings, and neither
\* deletion leg is issued.
C2_ConflictExactIds ==
    \A p \in Procs :
        (seen[p].answer = "listed" /\ BlockingOwned(p) # {}) =>
            /\ Done(p)
            /\ ret[p].status_code = 409
            /\ SeqToSet(ret[p].blocked_items) = {ItemId(x) : x \in BlockingOwned(p)}
            /\ Len(ret[p].blocked_items) = Cardinality(BlockingOwned(p))
            /\ NoDestructiveCalls(p)
            /\ \A l \in Legs : futures[p][l].state = "none"

C2_Witness ==
    \E p \in Procs :
        /\ Done(p) /\ ret[p].status_code = 409
        /\ Cardinality(BlockingOwned(p)) = 2
        /\ \E x \in seen[p].owned : x.status = "sold"

\* C3: when the phase-2 enumeration fails (no answer, or an error status
\* other than 404) the outcome is 503 and no deletion leg is ever issued.
C3_EnumerationFailureIs503 ==
    \A p \in Procs :
        seen[p].answer \in {"network", "http_error"} =>
            /\ Done(p)
            /\ ret[p].status_code = 503
            /\ NoDestructiveCalls(p)

\* C4: for an existing account with a numeric id whose enumerated listings
\* are empty or all non-blocking, a finished call has run the catalog leg
\* and the identity leg exactly once each, and no leg ever runs twice.
C4_BothLegsOnce ==
    \A p \in Procs :
        /\ calls[p].delete_items <= 1
        /\ calls[p].delete_user <= 1
        /\ ( /\ Done(p)
             /\ seen[p].account = "present" /\ seen[p].lookup = "answered"
             /\ user_id[p] # None
             /\ seen[p].answer \notin {"none", "network"}
             /\ \A i \in 1..Len(items[p]) :
                    items[p][i].status \notin {"reserved", "sold"} )
           => (calls[p].delete_items = 1 /\ calls[p].delete_user = 1)

C4_Witness ==
    \E p \in Procs :
        /\ Done(p) /\ ret[p].status_code = 200
        /\ Len(items[p]) >= 1
        /\ calls[p].delete_items = 1 /\ calls[p].delete_user = 1

\* C5: when the identity leg ends 'deleted' or 'not_found' and the catalog
\* leg ends 'deleted' or 'none', the overall outcome is 200.
C5_BothSuccessIs200 ==
    \A p \in Procs :
        (Done(p) /\ IdOk(p) /\ CatOk(p)) => ret[p].status_code = 200

\* C6: when exactly one leg fails and the other succeeds or is a no-op, the
\* outcome is 207, the body carries both leg statuses, and the errors list
\* has one entry, naming the failed leg; with the identity leg deleted and
\* the catalog leg failed, ms1_identity is 'deleted' and ms2_catalog holds
\* the catalog failure with its code.
C6_OneLegFailedIsPartial ==
    \A p \in Procs :
        Done(p) =>
            /\ (IdFailed(p) /\ CatOk(p)) =>
                    /\ ret[p].status_code = 207
                    /\ ret[p].ms1_identity.tag \in {"failed", "error"}
                    /\ ret[p].ms2_catalog.tag =
                        (IF CatFut(p).status_code = 404 THEN "none" ELSE "deleted")
                    /\ Len(ret[p].errors) = 1
                    /\ ret[p].errors[1].leg = "ms1_identity"
            /\ (IdOk(p) /\ CatFailed(p)) =>
                    /\ ret[p].status_code = 207
                    /\ ret[p].ms1_identity.tag =
                        (IF IdFut(p).status_code = 200 THEN "deleted" ELSE "not_found")
                    /\ ret[p].ms2_catalog.tag \in {"failed", "error"}
                    /\ ret[p].ms2_catalog.tag = "failed" =>
                            ret[p].ms2_catalog.code = CatFut(p).status_code
                    /\ Len(ret[p].errors) = 1
                    /\ ret[p].errors[1].leg = "ms2_catalog"

C6_Witness ==
    \E p \in Procs :
        /\ Done(p) /\ CatFailed(p)
        /\ IdOk(p) /\ IdFut(p).status_code = 200
        /\ ret[p].status_code = 207 /\ ret[p].ms1_identity.tag = "deleted"

\* C7: when both legs fail the outcome is 207 (never 500, never 200), both
\* leg statuses are failures, and errors has one entry per leg.
C7_BothLegsFailedIsPartial ==
    \A p \in Procs :
        (Done(p) /\ IdFailed(p) /\ CatFailed(p)) =>
            /\ ret[p].status_code = 207
            /\ ret[p].ms1_identity.tag \in {"failed", "error"}
            /\ ret[p].ms2_catalog.tag \in {"failed", "error"}
            /\ Len(ret[p].errors) = 2
            /\ {ret[p].errors[1].leg, ret[p].errors[2].leg} = Legs

C7_Witness ==
    \E p \in Procs :
        /\ Done(p) /\ IdFailed(p) /\ CatFailed(p)
        /\ IdFut(p).raised /\ CatFut(p).status_code = 500

\* the outcome reconciled from the two legs' results taken in submission order
InSubmissionOrder(p) ==
    Reconcile([l \in Legs |-> CollectStatus(l, futures[p][l])],
              CollectErrors("ms2_catalog", CatFut(p))
                \o CollectErrors("ms1_identity", IdFut(p)))

Joined(p) ==
    /\ (pc[p] = "await" => \A l \in Legs : futures[p][l].state # "none")
    /\ (ret[p].status_code \in {200, 207} =>
            \A l \in Legs : futures[p][l].state = "done" /\ futures[p][l].collected)

C9_FailFast ==
    \A p \in Procs :
        ret[p].status_code \in {404, 500, 503, 409} =>
            /\ NoDestructiveCalls(p)
            /\ \A l \in Legs : futures[p][l].state = "none"
            /\ \A i \in 1..Len(queue) : queue[i][1] # p

C9_Witness ==
    \E p \in Procs :
        /\ Done(p) /\ ret[p].status_code = 503
        /\ seen[p].owned # {} /\ seen[p].owned \subseteq catalog
        /\ UsersNamed(users, uni[p]) # {}

\* C10: a network-level failure of the catalog store during the catalog leg
\* never leaves the leg 'none' or 'deleted', so the outcome is not 200.
C10_UnreachableIsFailure ==
    \A p \in Procs :
        (Done(p) /\ legItems[p].unreachable) =>
            /\ ret[p].ms2_catalog.tag \notin {"none", "deleted"}
            /\ ret[p].status_code # 200

\* C11: whatever the identity store does during the phase-1 lookup
\* (unreachable, timeout, error status), delete_user_and_items returns a
\* (status_code, body) pair and never raises.
C11_LookupNeverRaises ==
    \A p \in Procs : Done(p) => ret[p].status_code # RAISED

\* C12: when the account found in phase 1 has no numeric id the outcome is
\* 500 and no catalog call and no delete call is issued.
C12_MissingIdIs500 ==
    \A p \in Procs :
        ( /\ seen[p].account = "present" /\ seen[p].lookup = "answered"
          /\ user_id[p] = None ) =>
            /\ Done(p)
            /\ ret[p].status_code = 500
            /\ NoCatalogCalls(p)
            /\ calls[p].delete_user = 0

C12_Witness ==
    \E p \in Procs :
        /\ Done(p) /\ ret[p].status_code = 500
        /\ seen[p].account = "present" /\ user_id[p] = None
        /\ calls[p].get_user = 1 /\ OwnedBy(catalog, 1) # {}

\* C19: DELETE /composite/users/{uni} answers with the status code the
\* orchestrator returned (200, 207, 404, 409, 500 or 503), and a 409 answer
\* carries the blocked_items list in its detail.
C19_FacadeKeepsStatus ==
    \A p \in Procs :
        (response[p].via # "none" /\ ret[p].status_code # RAISED) =>
            /\ response[p].status_code = ret[p].status_code
            /\ response[p].status_code \in {200, 207, 404, 409, 500, 503}
            /\ ret[p].status_code = 409 =>
                    response[p].body.blocked_items = ret[p].blocked_items

C19_Witness ==
    \E p \in Procs :
        /\ response[p].status_code = 409 /\ response[p].via = "HTTPException"
        /\ Len(response[p].body.blocked_items) >= 1

\* C20: a call of ms2_delete_items_by_user_id for an owner with no listing
\* left returns 404, which the orchestrator classifies as 'none', and leaves
\* the catalog store unchanged; so does the same call made again.
C20_LegIdempotent ==
    \A i \in 1..Len(legCalls) :
        ( /\ legCalls[i].status_code # None
          /\ OwnedBy(legCalls[i].before, legCalls[i].owner) = {} ) =>
            /\ legCalls[i].status_code = 404
            /\ ClassifyCatalog(legCalls[i].status_code).tag = "none"
            /\ legCalls[i].after = legCalls[i].before

C20_Witness ==
    /\ Len(legCalls) = 2
    /\ legCalls[1].status_code = 404 /\ legCalls[2].status_code = 404
    /\ OwnedBy(legCalls[1].before, legCalls[1].owner) = {}
    /\ legCalls[1].before # {}
    /\ legCalls[2].after = legCalls[1].before

----------------------------------------------------------------------------
(* Properties of the users router and of the sign-in.                      *)

\* the value of the change token of a row
TokenOf(u) == IF u.last_seen_at = None THEN "0" ELSE Iso(u.last_seen_at)

RowById(us, id) == CHOOSE u \in us : u.user_id = id

\* C13: a PUT /users/{uni} without an If-Match header (or with an empty
\* one) is answered 428; a PUT to an existing account whose If-Match token
\* differs from the account's current token is answered 412; in both cases
\* the request ends there, having set nothing and changed no row.
C13_PreconditionChecked ==
    [][\A r \in Reqs :
        (req[r].pc = "new" /\ req'[r].op = "put") =>
            LET q == req'[r] IN
            /\ (~q.if_match.present \/ q.if_match = Header(FALSE, FALSE, "")) =>
                    /\ q.status_code = 428 /\ q.pc = "done"
                    /\ q.writes = NoWrites /\ users' = users
            /\ ( /\ q.if_match.present /\ q.if_match # Header(FALSE, FALSE, "")
                 /\ UsersNamed(users, q.uni) # {}
                 /\ q.if_match.value # TokenOf(FirstUser(users, q.uni)) ) =>
                    /\ q.status_code = 412 /\ q.pc = "done"
                    /\ q.writes = NoWrites /\ users' = users
      ]_vars

C13_Witness ==
    \E r1, r2 \in Reqs :
        /\ req[r1].op = "put" /\ req[r1].status_code = 428
        /\ req[r2].op = "put" /\ req[r2].status_code = 412
        /\ req[r2].if_match.weak /\ req[r2].if_match.quoted
        /\ UsersNamed(users, req[r2].uni) # {}

\* C14: a successful PUT /users/{uni} leaves the account with an ETag that
\* differs from the ETag it had just before the update.
C14_TokenAdvances ==
    [][\A r \in Reqs :
        ( /\ req[r].op = "put" /\ req[r].pc = "commit"
          /\ req'[r].status_code = 200 ) =>
            etag_of(RowById(users', req[r].target))
                # etag_of(RowById(users, req[r].target))
      ]_vars

\* C15, in the case where each successful update advances the token: of two
\* PUTs to the same account carrying the same If-Match token at most one
\* is answered 200.
C15_AtMostOneWriter ==
    \A r1, r2 \in Reqs :
        ( /\ r1 # r2
          /\ req[r1].op = "put" /\ req[r2].op = "put"
          /\ req[r1].target = req[r2].target
          /\ req[r1].if_match = req[r2].if_match
          /\ req[r1].status_code = 200
          /\ req[r1].etag_after # req[r1].etag_before
          /\ req[r2].etag_after # req[r2].etag_before )
        => req[r2].status_code # 200

Suffixed(b, k) == b \o "_" \o ToString(k)

HandleFree(us, h) == \A u \in us : u.uni # h

\* b when no account has it, else b_k for the smallest k >= 1 no account has
ExpectedHandle(us, b) ==
    IF HandleFree(us, b) THEN b
    ELSE LET k == CHOOSE k \in 1..(Cardinality(us) + 1) :
                    /\ HandleFree(us, Suffixed(b, k))
                    /\ \A j \in 1..(k - 1) : ~HandleFree(us, Suffixed(b, j))
         IN Suffixed(b, k)

\* C16: a sign-in that creates an account for base handle b gives it the
\* handle b when no account it reads has b, else b_k for the smallest
\* k >= 1 such that no account it reads has b_k; its commit inserts one row
\* with that handle.
C16_HandleDedup ==
    [][\A r \in Reqs :
        /\ ( /\ req[r].pc = "new" /\ req'[r].op = "signin"
             /\ req'[r].kind = "create" ) =>
                req'[r].insert.uni
                    = ExpectedHandle(users, BaseHandle(req'[r].info))
        /\ ( /\ req[r].op = "signin" /\ req[r].kind = "create"
             /\ req[r].pc = "commit" /\ req'[r].status_code = 307 ) =>
                \E u \in users' :
                    /\ u \notin users /\ users' = users \cup {u}
                    /\ u.uni = req[r].insert.uni
      ]_vars

C16_Witness ==
    \E r \in Reqs :
        /\ req[r].op = "signin" /\ req[r].kind = "create"
        /\ req[r].status_code = 307
        /\ req[r].uni = "jdoe_2"
        /\ \E u \in users : u.uni = "jdoe_2" /\ u.user_id = req[r].target

\* C17: no two accounts share a handle.
C17_HandlesUnique ==
    \A u, v \in users : u.uni = v.uni => u.user_id = v.user_id

\* C18: a sign-in whose profile claims lack sub or lack email is answered
\* 400 and creates or changes no account.
C18_MissingClaimsIs400 ==
    \A r \in Reqs :
        ( /\ req[r].op = "signin" /\ req[r].pc = "done"
          /\ (Falsy(req[r].info.sub) \/ Falsy(req[r].info.email)) ) =>
            /\ req[r].status_code = 400
            /\ req[r].writes = NoWrites /\ req[r].insert = NoRow

\* C21: DELETE /users/{uni} for a handle with an account answers 200 and
\* removes that account's row and nothing else, whatever listings the
\* account owns and without a change of the catalog store or a call to it;
\* for a handle with no account it answers 404 and changes nothing.
C21_DirectDeleteUnconditional ==
    [][\A r \in Reqs :
        (req[r].pc = "new" /\ req'[r].op = "delete") =>
            LET h == req'[r].uni
                named == {u \in users : u.uni = h}
            IN /\ catalog' = catalog /\ calls' = calls
               /\ req'[r].pc = "done"
               /\ named = {} =>
                    /\ req'[r].status_code = 404
                    /\ users' = users
               /\ named # {} =>
                    /\ req'[r].status_code = 200
                    /\ \E u \in named :
                        /\ users' = users \ {u}
                        /\ u.user_id = req'[r].target
                        /\ \A v \in named : u.user_id <= v.user_id
      ]_vars

C21_Witness ==
    \E r1, r2 \in Reqs :
        /\ req[r1].op = "delete" /\ req[r1].status_code = 200
        /\ \E x \in catalog :
            x.seller_id = req[r1].target /\ x.status \in {"reserved", "sold"}
        /\ \A u \in users : u.user_id # req[r1].target
        /\ req[r2].op = "delete" /\ req[r2].status_code = 404

\* C22: a listing that phases 2 and 3 enumerated as available and that is
\* reserved by the time the catalog leg runs is not removed from the catalog
\* store by any step of the composite deletion.
C22_NoBlockedListingDeleted ==
    [][\A p \in Procs : \A x \in catalog :
        ( /\ x.status = "reserved"
          /\ seen[p].answer = "listed"
          /\ [x EXCEPT !.status = "available"] \in seen[p].owned )
        => x \in catalog'
      ]_vars

\* C23: when delete_user_and_items has returned 200, no account has the
\* handle it was called with and no listing of the catalog store has the
\* account's numeric id as seller_id.
C23_FullSuccessLeavesNothing ==
    \A p \in Procs :
        (Done(p) /\ ret[p].status_code = 200) =>
            /\ \A u \in users : u.uni # uni[p]
            /\ \A x \in catalog : x.seller_id # user_id[p]

\* C24: what phase 2 enumerated, what it reports as blocking and what the
\* catalog leg is about to delete are listings whose seller_id is the
\* resolved numeric id; when the store answered with the listings (bare
\* array or envelope) the enumeration is exactly the account's listings;
\* and no step removes a listing of another seller from the catalog store.
C24_OnlyOwnListings ==
    /\ [](\A p \in Procs :
            /\ \A i \in 1..Len(items[p]) : items[p][i].seller_id = user_id[p]
            /\ (seen[p].answer = "listed" =>
                    SeqToSet(items[p]) = seen[p].owned)
            /\ \A i \in 1..Len(ret[p].blocked_items) :
                    \E x \in seen[p].owned :
                        ItemId(x) = ret[p].blocked_items[i]
            /\ \A path \in legItems[p].pending :
                    \E x \in AllListings :
                        /\ ToString(ItemId(x)) = path
                        /\ \A y \in catalog :
                            ItemId(y) = ItemId(x) => y.seller_id = user_id[p])
    /\ [][\A x \in catalog :
            (\A y \in catalog' : ItemId(y) # ItemId(x)) =>
                \E p \in Procs : x.seller_id = user_id[p]
         ]_vars

C24_Witness ==
    \E p \in Procs :
        /\ Done(p) /\ ret[p].status_code = 200
        /\ seen[p].answer = "listed"
        /\ legItems[p].deleted_count = 1
        /\ \A x \in catalog : x.seller_id # user_id[p]
        /\ \E x \in catalog : x.status \in {"reserved", "sold"}

\* C25: eventually every orchestration whose legs were submitted to the
\* shared pool has returned a reconciled outcome (200 or 207), also when
\* more leg tasks are pending than the pool has workers.
C25_PoolNoStarvation ==
    <>(\A p \in PoolProcs :
            /\ pc[p] # "await"
            /\ pc[p] = "done" => ret[p].status_code \in {200, 207})

C25_Witness ==
    /\ Cardinality({t \in PoolProcs \X Legs :
                        futures[t[1]][t[2]].state = "running"}) = max_workers
    /\ Len(queue) = 2
    /\ \E p \in PoolProcs : futures[p]["ms2_catalog"].state = "queued"

ErrorsOf(p, leg) == {i \in 1..Len(errors[p]) : errors[p][i].leg = leg}

\* C26: once the loop has taken a leg's future, the identity leg is
\* 'deleted' exactly for status code 200, 'not_found' exactly for 404 and
\* 'failed:<code>' for any other code; the catalog leg is 'deleted' exactly
\* for 200 or 204, 'none' exactly for 404 and 'failed:<code>' otherwise; a
\* leg that raised is 'error'; and errors holds exactly one entry for each
\* 'failed' or 'error' leg and none for the others.
C26_LegClassification ==
    \A p \in Procs : \A leg \in Legs :
        LET f == futures[p][leg]
            st == result[p][leg]
            okCodes == IF leg = "ms2_catalog" THEN {200, 204} ELSE {200}
            noop == IF leg = "ms2_catalog" THEN "none" ELSE "not_found"
        IN IF ~f.collected
           THEN st = Unknown /\ ErrorsOf(p, leg) = {}
           ELSE /\ f.raised => st.tag = "error"
                /\ ~f.raised =>
                    /\ st.tag = "deleted" <=> f.status_code \in okCodes
                    /\ st.tag = noop <=> f.status_code = 404
                    /\ f.status_code \notin okCodes \cup {404} =>
                            st.tag = "failed" /\ st.code = f.status_code
                /\ st.tag \in {"deleted", noop, "failed", "error"}
                /\ Cardinality(ErrorsOf(p, leg)) =
                        IF st.tag \in {"failed", "error"} THEN 1 ELSE 0
                /\ \A i \in ErrorsOf(p, leg) :
                        errors[p][i].tag = st.tag /\ errors[p][i].code = st.code

C26_Witness ==
    \E p \in Procs :
        /\ CatFut(p).collected /\ CatFut(p).status_code = 204
        /\ result[p]["ms2_catalog"].tag = "deleted"
        /\ IdFut(p).collected /\ IdFut(p).status_code = 204
        /\ result[p]["ms1_identity"].tag = "failed"
        /\ Len(errors[p]) = 1

WithId(S) == {x \in S : ItemId(x) # None}

\* C27: ms2_delete_items_by_user_id returns 404 when the owner has no
\* listing; having enumerated listings it returns 200 exactly when as many
\* per-item deletes answered 200 or 204 as listings were enumerated, 207
\* when some but not all did, 500 when none did; every enumerated listing
\* with an id gets one per-item delete, each call is counted once, as
\* deleted exactly when it answered 200 or 204, and the leg returns only
\* when every call was made.
C27_BulkDeleteAggregate ==
    /\ [](\A p \in Procs :
            LET L == legItems[p]
                f == CatFut(p)
            IN /\ (f.state = "done" /\ L.stage = "returned") =>
                    /\ L.pending = {}
                    /\ L.n_items = 0 => f.status_code = 404
                    /\ L.n_items > 0 =>
                        /\ f.status_code = 200 <=> L.deleted_count = L.n_items
                        /\ f.status_code = 207 <=>
                                (0 < L.deleted_count /\ L.deleted_count < L.n_items)
                        /\ f.status_code = 500 <=> L.deleted_count = 0
               /\ \A i \in 1..Len(legCalls) :
                    ( /\ legCalls[i].status_code # None
                      /\ OwnedBy(legCalls[i].before, legCalls[i].owner) = {} )
                    => legCalls[i].status_code = 404)
    /\ [][\A p \in Procs :
            LET L == legItems[p]
                M == legItems'[p]
                owned == OwnedBy(catalog, user_id[p])
            IN /\ (L.stage = "idle" /\ M.stage # "idle"
                    /\ M.n_items = Cardinality(owned)) =>
                        M.pending = {ToString(ItemId(x)) : x \in WithId(owned)}
               /\ (L.stage = "deleting" /\ M # L) =>
                    /\ M.pending \subseteq L.pending
                    /\ Cardinality(M.pending) = Cardinality(L.pending) - 1
                    /\ calls'[p].delete_item = calls[p].delete_item + 1
                    /\ IF M.status \in {200, 204}
                       THEN /\ M.deleted_count = L.deleted_count + 1
                            /\ M.failed_count = L.failed_count
                       ELSE /\ M.deleted_count = L.deleted_count
                            /\ M.failed_count = L.failed_count + 1
                    /\ M.stage = IF M.pending = {} THEN "returned" ELSE "deleting"
         ]_vars

C27_Witness ==
    \E p \in Procs :
        /\ CatFut(p).state = "done" /\ CatFut(p).status_code = 207
        /\ legItems[p].n_items = 2
        /\ legItems[p].deleted_count = 1 /\ legItems[p].failed_count = 1
        /\ legItems[p].status \in {200, 204}

Written(w, f) == f \in DOMAIN w

\* C28: a sign-in that finds an account by the provider's subject id sets on
\* it the name and the avatar only where the account it read had none and
\* the provider gives one, the email only when it differs, and last-seen;
\* its commit changes that row in these attributes only: numeric id,
\* handle, department, phone, credibility score and subject id are kept, no
\* other row changes and no row is added.
C28_SignInFrame ==
    [][\A r \in Reqs :
        /\ ( /\ req[r].pc = "new" /\ req'[r].op = "signin"
             /\ req'[r].kind = "update" ) =>
                LET q == req'[r]
                    row == RowById(users, q.target)
                IN /\ row.google_id = q.info.sub
                   /\ q.insert = NoRow
                   /\ DOMAIN q.writes \subseteq
                        {"student_name", "avatar_url", "email", "last_seen_at"}
                   /\ Written(q.writes, "student_name") <=>
                        (row.student_name \in {NoneStr, ""}
                         /\ q.info.name \notin {NoneStr, ""})
                   /\ Written(q.writes, "student_name") =>
                        q.writes.student_name = q.info.name
                   /\ Written(q.writes, "avatar_url") <=>
                        (row.avatar_url \in {NoneStr, ""}
                         /\ q.info.picture \notin {NoneStr, ""})
                   /\ Written(q.writes, "avatar_url") =>
                        q.writes.avatar_url = q.info.picture
                   /\ Written(q.writes, "email") <=> row.email # q.info.email
                   /\ Written(q.writes, "email") => q.writes.email = q.info.email
                   /\ Written(q.writes, "last_seen_at")
                   /\ q.writes.last_seen_at = now
        /\ ( /\ req[r].op = "signin" /\ req[r].kind = "update"
             /\ req[r].pc = "commit" /\ req'[r].status_code = 307 ) =>
                LET id == req[r].target
                    old == RowById(users, id)
                    new == RowById(users', id)
                IN /\ {u.user_id : u \in users'} = {u.user_id : u \in users}
                   /\ Cardinality(users') = Cardinality(users)
                   /\ \A u \in users : u.user_id # id => u \in users'
                   /\ \A f \in DOMAIN old :
                        new[f] = IF Written(req[r].writes, f)
                                 THEN req[r].writes[f] ELSE old[f]
                   /\ \A f \in {"user_id", "uni", "dept_name", "phone",
                                "credibility_score", "google_id"} :
                        new[f] = old[f]
      ]_vars

C28_Witness ==
    \E r \in Reqs :
        /\ req[r].op = "signin" /\ req[r].kind = "update"
        /\ req[r].status_code = 307
        /\ Written(req[r].writes, "student_name")
        /\ Written(req[r].writes, "avatar_url")
        /\ Written(req[r].writes, "email")
        /\ \E u \in users :
            /\ u.user_id = req[r].target
            /\ u.uni = "jdoe_1" /\ u.google_id = "g9"
            /\ u.student_name = "Jane" /\ u.email = "new@columbia.edu"

IdsOf(us) == {u.user_id : u \in us}

\* C29: whatever request commits (profile update, sign-in, creation or
\* deletion of an account), every account that exists before and after the
\* step keeps its numeric id and its handle; a new account gets an id no
\* account had before, and at most one row is touched.
C29_HandleImmutable ==
    /\ [](\A u \in users : u.user_id < next_id)
    /\ [][/\ \A u \in users : \A v \in users' :
                v.user_id = u.user_id => v.uni = u.uni
          /\ \A v \in users' :
                v.user_id \notin IdsOf(users) =>
                    /\ v.user_id = next_id
                    /\ next_id' > next_id
          /\ Cardinality(users' \ users) <= 1
          /\ Cardinality(IdsOf(users) \ IdsOf(users')) <= 1
          /\ Cardinality(IdsOf(users')) = Cardinality(users')
         ]_vars

C29_Witness ==
    \E r1, r2 \in Reqs :
        /\ req[r1].op = "signin" /\ req[r1].kind = "update"
        /\ req[r1].status_code = 307
        /\ "email" \in DOMAIN req[r1].writes
        /\ req[r2].op = "delete" /\ req[r2].status_code = 200
        /\ req[r2].target # req[r1].target
        /\ \E u \in users :
            /\ u.user_id = 2 /\ u.user_id = req[r1].target
            /\ u.uni = "jdoe_1" /\ u.email = "new@columbia.edu"

\* C30: no two accounts have the same email.
C30_EmailUnique ==
    \A u, v \in users : u.email = v.email => u.user_id = v.user_id
====
